---- MODULE Spec2Model ----
(***************************************************************************)
(* Model of deploy/config/tfconfig/iam.go: the two Terraform resource      *)
(* config objects ProjectIAMMembers and ServiceAccount, their Init / ID /  *)
(* ResourceType methods and the custom JSON (un)marshalling of             *)
(* ProjectIAMMembers.                                                      *)
(*                                                                         *)
(* Go strings are TLA+ strings.  JSON texts are modelled by their parse    *)
(* trees (records with a kind field k), a text with a syntax error by the  *)
(* kind "malformed".  Pointers to ProjectIAMMember are modelled by the     *)
(* pointed-to value, a nil pointer by NilMember; inside MarshalJSON the    *)
(* map forEach holds pointers, modelled by the position of the member in   *)
(* Members.                                                                *)
(***************************************************************************)
EXTENDS Integers, Sequences, FiniteSets, TLC

VARIABLES
    kind,      \* concrete type behind the resource interface: "iam" or "sa"
    ms,        \* the ProjectIAMMembers: [Members, DependsOn, project]
    tail,      \* slots of the Members backing array between len and cap
    a,         \* the ServiceAccount: [AccountID, Project, DisplayName]
    words,     \* the two machine words of a.Project: [ptr, len]
    op,        \* the method that returned last ("" right after construction)
    arg,       \* the projectID it was given (Init), "" otherwise
    replaced,  \* the project it found bound (ProjectIAMMembers.Init), "" otherwise
    ret,       \* its string result (ID, ResourceType), "" otherwise
    err,       \* its error result: NoErr, an error message, or Panic
    out,       \* the JSON text returned by the last MarshalJSON, else NoJSON
    forEach,   \* the local map forEach of the last MarshalJSON (key -> position)
    a0,        \* the ServiceAccount as constructed
    hist,      \* the ServiceAccount.Init calls so far: [arg, err, after]
    lastIn,    \* kind of the JSON text Members was decoded from without error
               \* ("none": constructed, or changed by a failed decode since)
    pc,        \* concurrent callers of ServiceAccount.Init: position of each
    garg,      \* ... the projectID each passes
    gerr,      \* ... the error each got
    stored,    \* ... the words of a.Project each has stored so far
    loaded,    \* ... the words of a.Project each has loaded for its message
    gorder,    \* ... the callers in the order they returned
    overlap    \* ... some call began while another one was in progress

vars == <<kind, ms, tail, a, words, op, arg, replaced, ret, err, out, forEach,
          a0, hist, lastIn, pc, garg, gerr, stored, loaded, gorder, overlap>>

iamVars  == <<ms, tail, out, forEach, lastIn>>
saVars   == <<a, words, hist>>
concVars == <<pc, garg, gerr, stored, loaded, gorder, overlap>>

-----------------------------------------------------------------------------
(* Bounds *)

\* longest JSON array handed to UnmarshalJSON
MaxElems == 2
\* most ServiceAccount.Init calls made on one instance
MaxCalls == 3

-----------------------------------------------------------------------------
(* Values *)

NoErr == "<nil>"
Panic == "panic: runtime error: invalid memory address or nil pointer dereference"
SyntaxError == "json: syntax error"
TypeError == "json: cannot unmarshal"

EmptyMap == [x \in {} |-> x]

\* A nil *ProjectIAMMember.
NilMember == [nil |-> TRUE]

\* The zero ProjectIAMMember (what a freshly allocated pointer points to).
ZeroMember ==
    [Role |-> "", Member |-> "", ForEach |-> EmptyMap, Project |-> "",
     DependsOn |-> <<>>]

\* The zero ProjectIAMMembers.
ZeroMembers == [Members |-> <<>>, DependsOn |-> <<>>, project |-> ""]

ProjectIDs == {"", "p1", "p2"}
DependsOnLists == {<<>>, <<"d1">>}
AccountIDs == {"sa1", "sa2"}
DisplayNames == {"", "SA"}

-----------------------------------------------------------------------------
(* JSON texts, by parse tree *)

Malformed == [k |-> "malformed"]
JNull == [k |-> "null"]
JNum == [k |-> "number"]
JStr(s) == [k |-> "string", v |-> s]
JArr(es) == [k |-> "array", elems |-> es]
JObj(fs) == [k |-> "object", fields |-> fs]
NoJSON == [k |-> "none"]

\* Array elements offered to UnmarshalJSON: two bindings whose keys
\* "<role> <member>" coincide although the pairs differ, a binding whose role
\* has the wrong JSON type, and null.
JSONElems ==
    { JObj([role |-> JStr("r"), member |-> JStr("x m")]),
      JObj([role |-> JStr("r x"), member |-> JStr("m")]),
      JObj([role |-> JNum]),
      JNull }

SeqsUpTo(S, n) == UNION { [1..m -> S] : m \in 0..n }

JSONInputs ==
    {Malformed, JNull, JNum} \cup { JArr(es) : es \in SeqsUpTo(JSONElems, MaxElems) }

-----------------------------------------------------------------------------
(* ProjectIAMMembers *)

\* Variant: Init keeps a project that is already bound.
PIMInit_KeepFirst(s, projectID) ==
    [s |-> IF s.project = "" THEN [s EXCEPT !.project = projectID] ELSE s,
     err |-> NoErr]

\* func (ms *ProjectIAMMembers) Init(projectID string) error
PIMInit(s, projectID) ==
    [s |-> [s EXCEPT !.project = projectID], err |-> NoErr]

\* func (ms *ProjectIAMMembers) ID() string
PIMID(s) == "project"

\* func (ms *ProjectIAMMembers) ResourceType() string
PIMResourceType(s) == "google_project_iam_member"

\* Variant: the key is built without the separating space.
Key_NoSeparator(m) == m.Role \o m.Member

\* key := fmt.Sprintf("%s %s", m.Role, m.Member)
Key(m) == m.Role \o " " \o m.Member

\* Variant: a key already in the map keeps its first value.
MapPut_KeepFirst(f, key, i) ==
    [x \in DOMAIN f \cup {key} |-> IF x \in DOMAIN f THEN f[x] ELSE i]

\* forEach[key] = i: a later write to the same key replaces the earlier one.
MapPut(f, key, i) ==
    [x \in DOMAIN f \cup {key} |-> IF x = key THEN i ELSE f[x]]

\* The loop of MarshalJSON from position i on; acc is forEach so far.
RECURSIVE BuildForEach(_, _, _)
BuildForEach(members, i, acc) ==
    IF i > Len(members) THEN acc
    ELSE BuildForEach(members, i + 1, MapPut(acc, Key(members[i]), i))

\* json.Marshal of a *ProjectIAMMember under its struct tags: role and
\* member always, for_each / project / depends_on only when non-empty.
RECURSIVE JSONOfMember(_)
JSONOfMember(m) ==
    LET names == {"role", "member"}
                 \cup (IF DOMAIN m.ForEach # {} THEN {"for_each"} ELSE {})
                 \cup (IF m.Project # "" THEN {"project"} ELSE {})
                 \cup (IF Len(m.DependsOn) # 0 THEN {"depends_on"} ELSE {})
    IN JObj([f \in names |->
             CASE f = "role" -> JStr(m.Role)
               [] f = "member" -> JStr(m.Member)
               [] f = "for_each" ->
                    JObj([x \in DOMAIN m.ForEach |-> JSONOfMember(m.ForEach[x])])
               [] f = "project" -> JStr(m.Project)
               [] f = "depends_on" ->
                    JArr([i \in 1..Len(m.DependsOn) |-> JStr(m.DependsOn[i])])])

\* func (ms *ProjectIAMMembers) MarshalJSON() ([]byte, error)
\* m.Role on a nil member panics; the receiver is only read.
MarshalJSON(s) ==
    IF \E i \in 1..Len(s.Members) : s.Members[i] = NilMember
    THEN [forEach |-> EmptyMap, out |-> NoJSON, err |-> Panic]
    ELSE LET fe == BuildForEach(s.Members, 1, EmptyMap)
         IN [forEach |-> fe,
             out |-> JSONOfMember(
                 [ForEach   |-> [x \in DOMAIN fe |-> s.Members[fe[x]]],
                  Project   |-> s.project,
                  Role      |-> "${each.value.role}",
                  Member    |-> "${each.value.member}",
                  DependsOn |-> s.DependsOn]),
             err |-> NoErr]

\* json.Unmarshal of the JSON value v into a string field holding cur: a
\* string is stored, null is ignored, any other value is a type error that
\* leaves the field as it was.
DecodeString(cur, v) ==
    CASE v.k = "string" -> [val |-> v.v, bad |-> FALSE]
      [] v.k = "null"   -> [val |-> cur, bad |-> FALSE]
      [] OTHER          -> [val |-> cur, bad |-> TRUE]

DecodeField(cur, e, name) ==
    IF name \in DOMAIN e.fields THEN DecodeString(cur, e.fields[name])
    ELSE [val |-> cur, bad |-> FALSE]

\* json.Unmarshal of the array element e into the slot holding the pointer
\* slot: null sets the pointer to nil; otherwise a nil pointer is allocated
\* first, an object is decoded field by field INTO the pointed-to member
\* (fields the object lacks keep their value), and any other value is a type
\* error.  (Elements carry role, member and project only.)
DecodeMember(slot, e) ==
    LET base == IF slot = NilMember THEN ZeroMember ELSE slot
    IN CASE e.k = "null" -> [val |-> NilMember, bad |-> FALSE]
         [] e.k = "object" ->
              LET r == DecodeField(base.Role, e, "role")
                  m == DecodeField(base.Member, e, "member")
                  p == DecodeField(base.Project, e, "project")
              IN [val |-> [base EXCEPT !.Role = r.val, !.Member = m.val,
                                       !.Project = p.val],
                  bad |-> r.bad \/ m.bad \/ p.bad]
         [] OTHER -> [val |-> base, bad |-> TRUE]

\* json.Unmarshal of the JSON array es into the slice Members: element i is
\* decoded into slot i of the existing backing array (Members followed by
\* the slots up to cap, held in t; a slot beyond it is nil), then the slice
\* is cut to the array's length (an empty array gives a fresh empty slice).
\* A type error inside is remembered and returned after the whole array has
\* been decoded and stored.
DecodeArray(s, t, es) ==
    LET backing == s.Members \o t
        n == Len(es)
        slot(i) == IF i <= Len(backing) THEN backing[i] ELSE NilMember
        dec == [i \in 1..n |-> DecodeMember(slot(i), es[i])]
    IN [s |-> [s EXCEPT !.Members = [i \in 1..n |-> dec[i].val]],
        tail |-> IF n = 0 \/ n >= Len(backing) THEN <<>>
                 ELSE SubSeq(backing, n + 1, Len(backing)),
        err |-> IF \E i \in 1..n : dec[i].bad THEN TypeError ELSE NoErr]

\* Variant: a value that is not an array is taken for an empty list.
UnmarshalJSON_Lenient(s, t, b) ==
    CASE b.k = "malformed" -> [s |-> s, tail |-> t, err |-> SyntaxError]
      [] b.k = "array" -> DecodeArray(s, t, b.elems)
      [] OTHER ->
           [s |-> [s EXCEPT !.Members = <<>>], tail |-> <<>>, err |-> NoErr]

\* func (ms *ProjectIAMMembers) UnmarshalJSON(b []byte) error
\*   return json.Unmarshal(b, &ms.Members)
\* A syntax error is found before anything is stored.  null makes Members
\* nil.  Any value other than null or an array is a type error that stores
\* nothing.
UnmarshalJSON(s, t, b) ==
    CASE b.k = "malformed" -> [s |-> s, tail |-> t, err |-> SyntaxError]
      [] b.k = "null" ->
           [s |-> [s EXCEPT !.Members = <<>>], tail |-> <<>>, err |-> NoErr]
      [] b.k = "array" -> DecodeArray(s, t, b.elems)
      [] OTHER -> [s |-> s, tail |-> t, err |-> TypeError]

-----------------------------------------------------------------------------
(* ServiceAccount *)

\* The words of a string header holding s.
WordsOf(s) == [ptr |-> s, len |-> Len(s)]

\* The string a header denotes.  A header whose len is larger than the data
\* behind ptr (possible only after racing stores) reads past the data.
StrOf(w) ==
    IF w.len = 0 THEN ""
    ELSE IF w.len <= Len(w.ptr) THEN SubSeq(w.ptr, 1, w.len)
    ELSE "<torn>"

\* Variants: the test is missing; the test is inverted.
ProjectIsSet_Never(project) == FALSE
ProjectIsSet_Inverted(project) == project = ""

\* a.Project != ""
ProjectIsSet(project) == project # ""

\* Variant: a second Init reports the error but has stored the project.
SAInit_Overwrites(acc, projectID) ==
    [a |-> [acc EXCEPT !.Project = projectID],
     err |-> IF acc.Project # "" THEN "project must not be set: " \o acc.Project
             ELSE NoErr]

\* func (a *ServiceAccount) Init(projectID string) error
SAInit(acc, projectID) ==
    IF ProjectIsSet(acc.Project)
    THEN [a |-> acc, err |-> "project must not be set: " \o acc.Project]
    ELSE [a |-> [acc EXCEPT !.Project = projectID], err |-> NoErr]

\* Variant: ID returns the display name.
SAID_DisplayName(acc) == acc.DisplayName

\* func (a *ServiceAccount) ID() string
SAID(acc) == acc.AccountID

\* func (a *ServiceAccount) ResourceType() string
SAResourceType(acc) == "google_service_account"

-----------------------------------------------------------------------------
(* One resource, used through the methods of its type *)

Callers == {"g1", "g2"}
CallerArgs == {"p1", "p2", "proj3"}

NoCalls ==
    /\ pc = [g \in Callers |-> "idle"]
    /\ garg = [g \in Callers |-> ""]
    /\ gerr = [g \in Callers |-> ""]
    /\ stored = [g \in Callers |-> {}]
    /\ loaded = [g \in Callers |-> EmptyMap]
    /\ gorder = <<>>
    /\ overlap = FALSE

Returned(name, p, old, r, e) ==
    /\ op' = name
    /\ arg' = p
    /\ replaced' = old
    /\ ret' = r
    /\ err' = e

InitCommon ==
    /\ tail = <<>>
    /\ words = WordsOf(a.Project)
    /\ a0 = a
    /\ hist = <<>>
    /\ op = ""
    /\ arg = ""
    /\ replaced = ""
    /\ ret = ""
    /\ err = NoErr
    /\ out = NoJSON
    /\ forEach = EmptyMap
    /\ lastIn = "none"

\* A ProjectIAMMembers constructed empty with its dependency list, or a
\* ServiceAccount constructed (decoded) with any of its three fields.
Init ==
    /\ kind \in {"iam", "sa"}
    /\ IF kind = "iam"
       THEN /\ ms \in { [ZeroMembers EXCEPT !.DependsOn = d] : d \in DependsOnLists }
            /\ a = [AccountID |-> "", Project |-> "", DisplayName |-> ""]
       ELSE /\ ms = ZeroMembers
            /\ a \in [AccountID : AccountIDs, Project : {"", "p0"},
                      DisplayName : DisplayNames]
    /\ InitCommon
    /\ NoCalls

CallPIMInit(projectID) ==
    /\ kind = "iam"
    /\ LET r == PIMInit(ms, projectID)
       IN /\ ms' = r.s
          /\ Returned("ProjectIAMMembers.Init", projectID, ms.project, "", r.err)
    /\ out' = NoJSON
    /\ forEach' = EmptyMap
    /\ UNCHANGED <<kind, tail, lastIn, a0, saVars, concVars>>

CallPIMID ==
    /\ kind = "iam"
    /\ Returned("ProjectIAMMembers.ID", "", "", PIMID(ms), NoErr)
    /\ out' = NoJSON
    /\ forEach' = EmptyMap
    /\ UNCHANGED <<kind, ms, tail, lastIn, a0, saVars, concVars>>

CallPIMResourceType ==
    /\ kind = "iam"
    /\ Returned("ProjectIAMMembers.ResourceType", "", "", PIMResourceType(ms), NoErr)
    /\ out' = NoJSON
    /\ forEach' = EmptyMap
    /\ UNCHANGED <<kind, ms, tail, lastIn, a0, saVars, concVars>>

CallMarshalJSON ==
    /\ kind = "iam"
    /\ LET r == MarshalJSON(ms)
       IN /\ out' = r.out
          /\ forEach' = r.forEach
          /\ Returned("ProjectIAMMembers.MarshalJSON", "", "", "", r.err)
    /\ UNCHANGED <<kind, ms, tail, lastIn, a0, saVars, concVars>>

CallUnmarshalJSON(b) ==
    /\ kind = "iam"
    /\ LET r == UnmarshalJSON(ms, tail, b)
       IN /\ ms' = r.s
          /\ tail' = r.tail
          /\ Returned("ProjectIAMMembers.UnmarshalJSON", "", "", "", r.err)
          /\ lastIn' = IF r.err = NoErr THEN b.k
                       ELSE IF r.s.Members = ms.Members THEN lastIn
                       ELSE "none"
    /\ out' = NoJSON
    /\ forEach' = EmptyMap
    /\ UNCHANGED <<kind, a0, saVars, concVars>>

\* UnmarshalJSON of the text the last MarshalJSON returned.
CallUnmarshalJSONOfOutput ==
    /\ out # NoJSON
    /\ CallUnmarshalJSON(out)

CallSAInit(projectID) ==
    /\ kind = "sa"
    /\ Len(hist) < MaxCalls
    /\ LET r == SAInit(a, projectID)
       IN /\ a' = r.a
          /\ words' = WordsOf(r.a.Project)
          /\ hist' = Append(hist, [arg |-> projectID, err |-> r.err, after |-> r.a])
          /\ Returned("ServiceAccount.Init", projectID, "", "", r.err)
    /\ UNCHANGED <<kind, iamVars, a0, concVars>>

CallSAID ==
    /\ kind = "sa"
    /\ Returned("ServiceAccount.ID", "", "", SAID(a), NoErr)
    /\ UNCHANGED <<kind, iamVars, a0, saVars, concVars>>

CallSAResourceType ==
    /\ kind = "sa"
    /\ Returned("ServiceAccount.ResourceType", "", "", SAResourceType(a), NoErr)
    /\ UNCHANGED <<kind, iamVars, a0, saVars, concVars>>

Next ==
    \/ \E p \in ProjectIDs : CallPIMInit(p)
    \/ CallPIMID
    \/ CallPIMResourceType
    \/ CallMarshalJSON
    \/ \E b \in JSONInputs : CallUnmarshalJSON(b)
    \/ CallUnmarshalJSONOfOutput
    \/ \E p \in ProjectIDs : CallSAInit(p)
    \/ CallSAID
    \/ CallSAResourceType

Spec == Init /\ [][Next]_vars

-----------------------------------------------------------------------------
(* Two callers of Init on one ServiceAccount, without synchronization.      *)
(* A call is the test a.Project != "" (a read of the len word), then       *)
(* either the two word loads of a.Project for the error message and the    *)
(* return of the error, or the two word stores of a.Project = projectID    *)
(* and the return of nil.  The build may emit the two loads, and the two    *)
(* stores, in either order.                                                 *)

InitConc ==
    /\ kind = "sa"
    /\ ms = ZeroMembers
    /\ a \in [AccountID : AccountIDs, Project : {""}, DisplayName : DisplayNames]
    /\ InitCommon
    /\ pc = [g \in Callers |-> "start"]
    /\ garg \in [Callers -> CallerArgs]
    /\ gerr = [g \in Callers |-> ""]
    /\ stored = [g \in Callers |-> {}]
    /\ loaded = [g \in Callers |-> EmptyMap]
    /\ gorder = <<>>
    /\ overlap = FALSE

\* if a.Project != "" {
\* The call begins here; the other caller may be anywhere in its own.
Check(g) ==
    /\ pc[g] = "start"
    /\ overlap' = (overlap \/ \E h \in Callers \ {g} : pc[h] \notin {"start", "done"})
    /\ pc' = [pc EXCEPT ![g] = IF ProjectIsSet(StrOf(words)) THEN "fail" ELSE "store"]
    /\ UNCHANGED <<kind, iamVars, a, words, hist, op, arg, replaced, ret, err, a0,
                   garg, gerr, stored, loaded, gorder>>

\* fmt.Errorf("project must not be set: %v", a.Project) of the header w as
\* loaded.  Formatting a header whose len is larger than the data behind ptr
\* reads past the data: the call faults, or returns a message of whatever
\* bytes it found.
Errorf(w) ==
    IF w.len <= Len(w.ptr)
    THEN {"project must not be set: " \o StrOf(w)}
    ELSE {"project must not be set: " \o StrOf(w), Panic}

\* return fmt.Errorf("project must not be set: %v", a.Project)
\* One word of the second read of a.Project; after the other one, the error
\* is formatted and returned.
Load(g, w) ==
    /\ pc[g] = "fail"
    /\ w \notin DOMAIN loaded[g]
    /\ LET l == [x \in DOMAIN loaded[g] \cup {w} |->
                    IF x = w THEN words[w] ELSE loaded[g][x]]
       IN /\ loaded' = [loaded EXCEPT ![g] = l]
          /\ IF DOMAIN l = {"ptr", "len"}
             THEN /\ pc' = [pc EXCEPT ![g] = "done"]
                  /\ \E e \in Errorf(l) : gerr' = [gerr EXCEPT ![g] = e]
                  /\ gorder' = Append(gorder, g)
             ELSE UNCHANGED <<pc, gerr, gorder>>
    /\ UNCHANGED <<kind, iamVars, a, words, hist, op, arg, replaced, ret, err, a0,
                   garg, stored, overlap>>

\* One word of a.Project = projectID; after the second, return nil.
Store(g, w) ==
    /\ pc[g] = "store"
    /\ w \notin stored[g]
    /\ words' = [words EXCEPT ![w] = WordsOf(garg[g])[w]]
    /\ a' = [a EXCEPT !.Project = StrOf(words')]
    /\ stored' = [stored EXCEPT ![g] = @ \cup {w}]
    /\ IF stored'[g] = {"ptr", "len"}
       THEN /\ pc' = [pc EXCEPT ![g] = "done"]
            /\ gerr' = [gerr EXCEPT ![g] = NoErr]
            /\ gorder' = Append(gorder, g)
       ELSE UNCHANGED <<pc, gerr, gorder>>
    /\ UNCHANGED <<kind, iamVars, hist, op, arg, replaced, ret, err, a0, garg,
                   loaded, overlap>>

NextConc ==
    \/ \E g \in Callers : Check(g)
    \/ \E g \in Callers : Load(g, "len")
    \/ \E g \in Callers : Load(g, "ptr")
    \/ \E g \in Callers : Store(g, "len")
    \/ \E g \in Callers : Store(g, "ptr")

SpecConc == InitConc /\ [][NextConc]_vars

-----------------------------------------------------------------------------
(* Claims *)

OpPIMInit == "ProjectIAMMembers.Init"
OpMarshal == "ProjectIAMMembers.MarshalJSON"
OpUnmarshal == "ProjectIAMMembers.UnmarshalJSON"
OpSAInit == "ServiceAccount.Init"

Members == ms.Members
N == Len(ms.Members)
NoNil == \A i \in 1..N : Members[i] # NilMember
Pair(m) == <<m.Role, m.Member>>
DistinctPairs == \A i, j \in 1..N : i # j => Pair(Members[i]) # Pair(Members[j])
HasDuplicate == \E i, j \in 1..N : i # j /\ Pair(Members[i]) = Pair(Members[j])
SpaceJoined(m) == m.Role \o " " \o m.Member
LastWithKey(key) ==
    CHOOSE j \in 1..N :
        /\ SpaceJoined(Members[j]) = key
        /\ \A i \in 1..N : SpaceJoined(Members[i]) = key => i <= j
Has(name) == name \in DOMAIN out.fields
MarshalReturned == op = OpMarshal /\ err = NoErr

\* C1: on a ServiceAccount constructed with project unset, Init(p1) then
\* Init(p2) with p1, p2 non-empty: the first call returns nil and sets
\* Project to p1, the second returns the precondition error (naming p1) and
\* leaves Project, AccountID and DisplayName as they were.
C1_SecondInitFails ==
    (a0.Project = "" /\ Len(hist) >= 2 /\ hist[1].arg # "" /\ hist[2].arg # "")
    => /\ hist[1].err = NoErr
       /\ hist[1].after = [a0 EXCEPT !.Project = hist[1].arg]
       /\ hist[2].err = "project must not be set: " \o hist[1].arg
       /\ hist[2].after = hist[1].after

C1_Witness ==
    /\ a0.Project = "" /\ Len(hist) = 2
    /\ hist[1].arg = "p1" /\ hist[2].arg = "p2"
    /\ hist[2].err # NoErr /\ a.Project = "p1"

\* C2 as stated: starting unset, over any Init calls with any projectIDs
\* (the empty one too) at most one call returns nil, every call after a
\* successful one fails, and Project never changes after the first success.
C2_AtMostOneSuccess ==
    a0.Project = ""
    => \A i, j \in 1..Len(hist) :
          (i < j /\ hist[i].err = NoErr)
          => (hist[j].err # NoErr /\ hist[j].after.Project = hist[i].after.Project)

\* C2 amended: starting unset, at most one Init call with a NON-EMPTY
\* projectID returns nil; every call after it fails and Project keeps that
\* projectID.  Init("") on an unset account returns nil and leaves it unset,
\* so it may succeed any number of times before.
C2_SetOnceByNonEmpty ==
    a0.Project = ""
    => /\ \A i, j \in 1..Len(hist) :
             (i < j /\ hist[i].err = NoErr /\ hist[i].arg # "")
             => (hist[j].err # NoErr /\ hist[j].after.Project = hist[i].arg)
       /\ \A i \in 1..Len(hist) :
             (hist[i].arg = "" /\ \A h \in 1..(i - 1) : hist[h].arg = "")
             => (hist[i].err = NoErr /\ hist[i].after.Project = "")
       /\ Cardinality({i \in 1..Len(hist) : hist[i].err = NoErr /\ hist[i].arg # ""}) <= 1

C2_Witness ==
    /\ a0.Project = "" /\ Len(hist) = 3
    /\ hist[1].arg = "" /\ hist[1].err = NoErr
    /\ hist[2].arg = "p1" /\ hist[2].err = NoErr
    /\ hist[3].arg = "p2" /\ hist[3].err # NoErr /\ a.Project = "p1"

\* C3 as stated: for a non-empty Members list of N members with pairwise
\* distinct (role, member) pairs, MarshalJSON builds a for_each map of exactly
\* N entries, the key "<role> <member>" of each member mapped to that member.
C3_DistinctPairsGiveNEntries ==
    (MarshalReturned /\ N >= 1 /\ NoNil /\ DistinctPairs)
    => /\ Cardinality(DOMAIN forEach) = N
       /\ \A i \in 1..N : forEach[SpaceJoined(Members[i])] = i
       /\ Has("for_each")
       /\ Cardinality(DOMAIN out.fields.for_each.fields) = N

\* C4: when two of the N members have the same (role, member) pair,
\* MarshalJSON returns no error, for_each has fewer than N entries, and each
\* key holds the last member of the list written under it.
C4_DuplicatesLastWins ==
    (op = OpMarshal /\ NoNil /\ HasDuplicate)
    => /\ err = NoErr
       /\ Cardinality(DOMAIN forEach) < N
       /\ DOMAIN out.fields.for_each.fields = DOMAIN forEach
       /\ \A i \in 1..N :
             LET key == SpaceJoined(Members[i])
             IN /\ key \in DOMAIN forEach
                /\ forEach[key] = LastWithKey(key)
                /\ out.fields.for_each.fields[key] = JSONOfMember(Members[LastWithKey(key)])

C4_Witness ==
    /\ MarshalReturned /\ N = 2
    /\ Members[1] = Members[2] /\ Members[1] # NilMember
    /\ DOMAIN forEach = {"r x m"} /\ forEach["r x m"] = 2

\* C5 as stated: whenever ServiceAccount.Init, UnmarshalJSON or MarshalJSON
\* returns an error, the receiver is as it was before the call.
C5_FailureLeavesReceiver ==
    [][(op' \in {OpSAInit, OpUnmarshal, OpMarshal} /\ err' # NoErr)
       => (ms' = ms /\ a' = a)]_vars

\* C6 as stated: after Init(p), MarshalJSON emits one object with
\* role = "${each.value.role}", member = "${each.value.member}", the for_each
\* keys { "<role> <member>" }, and, in every state of the aggregate (project
\* or lists empty too), project = p and depends_on = DependsOn.
C6_AlwaysEmitsProjectAndDependsOn ==
    [][(op = OpPIMInit /\ op' = OpMarshal /\ err' = NoErr)
       => /\ out'.k = "object"
          /\ out'.fields.role = JStr("${each.value.role}")
          /\ out'.fields.member = JStr("${each.value.member}")
          /\ "project" \in DOMAIN out'.fields
          /\ out'.fields.project = JStr(arg)
          /\ "depends_on" \in DOMAIN out'.fields
          /\ out'.fields.depends_on =
                 JArr([i \in 1..Len(ms.DependsOn) |-> JStr(ms.DependsOn[i])])
          /\ "for_each" \in DOMAIN out'.fields
             => DOMAIN out'.fields.for_each.fields =
                    { Members[i].Role \o " " \o Members[i].Member : i \in 1..N }]_vars

\* C6 amended: whenever MarshalJSON returns (no member is nil) it emits one
\* object with role = "${each.value.role}" and member = "${each.value.member}";
\* project is emitted, equal to the bound project, exactly when that is not
\* empty; depends_on, equal to DependsOn, exactly when that is not empty;
\* for_each exactly when there are members, its key set being
\* { "<role> <member>" : m in Members }; and nothing else.
C6_MarshalShape ==
    MarshalReturned
    => /\ out.k = "object"
       /\ DOMAIN out.fields \subseteq {"role", "member", "for_each", "project", "depends_on"}
       /\ out.fields.role = JStr("${each.value.role}")
       /\ out.fields.member = JStr("${each.value.member}")
       /\ Has("project") <=> ms.project # ""
       /\ Has("project") => out.fields.project = JStr(ms.project)
       /\ Has("depends_on") <=> ms.DependsOn # <<>>
       /\ Has("depends_on") =>
              out.fields.depends_on =
                  JArr([i \in 1..Len(ms.DependsOn) |-> JStr(ms.DependsOn[i])])
       /\ Has("for_each") <=> N > 0
       /\ Has("for_each") =>
              DOMAIN out.fields.for_each.fields =
                  { Members[i].Role \o " " \o Members[i].Member : i \in 1..N }

C6_Witness ==
    /\ MarshalReturned /\ N = 2
    /\ ms.project = "p1" /\ ms.DependsOn = <<"d1">>
    /\ out.fields.project = JStr("p1")
    /\ DOMAIN out.fields.for_each.fields = {"r x m", " "}

Accessors ==
    {"ProjectIAMMembers.ID", "ProjectIAMMembers.ResourceType",
     "ServiceAccount.ID", "ServiceAccount.ResourceType"}

\* C7: in every reachable state ProjectIAMMembers.ID() returns "project",
\* ProjectIAMMembers.ResourceType() "google_project_iam_member",
\* ServiceAccount.ResourceType() "google_service_account" and
\* ServiceAccount.ID() the account_id (which is the one the account was
\* constructed with); and a call of any of the four changes neither resource.
C7_Accessors ==
    /\ [](/\ kind = "iam" =>
               /\ PIMID(ms) = "project"
               /\ PIMResourceType(ms) = "google_project_iam_member"
          /\ kind = "sa" =>
               /\ SAID(a) = a.AccountID /\ a.AccountID = a0.AccountID
               /\ SAResourceType(a) = "google_service_account"
          /\ op = "ProjectIAMMembers.ID" => ret = "project"
          /\ op = "ProjectIAMMembers.ResourceType" => ret = "google_project_iam_member"
          /\ op = "ServiceAccount.ID" => ret = a0.AccountID
          /\ op = "ServiceAccount.ResourceType" => ret = "google_service_account")
    /\ [][op' \in Accessors => (ms' = ms /\ tail' = tail /\ a' = a /\ words' = words)]_vars

C7_Witness ==
    /\ op = "ServiceAccount.ID" /\ ret = "sa2" /\ a.DisplayName = "SA"
    /\ Len(hist) = 2 /\ hist[1].err = NoErr /\ hist[2].err # NoErr

FreshDecode(b) == UnmarshalJSON(ZeroMembers, <<>>, b)

\* C8 as stated: for every valid member-list input, decoding and then
\* re-serializing gives a text of another form than the input, and
\* UnmarshalJSON of that text does not give back the decoded Members.
C8_RoundTripNeverReconstructs ==
    (MarshalReturned /\ lastIn # "none")
    => /\ out.k # lastIn
       /\ FreshDecode(out).s.Members # Members

\* C8 amended: an input that UnmarshalJSON accepts is an array or null, never
\* an object; MarshalJSON of the decoded list (when it returns) is always a
\* single object; UnmarshalJSON of that object fails with a type error and
\* stores nothing, in a fresh aggregate and in the decoded one alike; so the
\* decoded Members are not reconstructed whenever they are NOT EMPTY (an
\* input [] or null decodes to the empty list a fresh aggregate holds).
C8_RoundTripAsymmetric ==
    (MarshalReturned /\ lastIn # "none")
    => /\ lastIn \in {"array", "null"}
       /\ out.k = "object"
       /\ FreshDecode(out).err = TypeError
       /\ FreshDecode(out).s = ZeroMembers
       /\ UnmarshalJSON(ms, tail, out).s = ms
       /\ N > 0 => FreshDecode(out).s.Members # Members

C8_Witness ==
    /\ MarshalReturned /\ lastIn = "array" /\ N = 2
    /\ Has("for_each")
    /\ FreshDecode(out).err = TypeError

AllDone == \A g \in Callers : pc[g] = "done"
Succeeded == {g \in Callers : gerr[g] = NoErr}
ReadEmpty(g) == stored[g] # {}

\* C9: ServiceAccount.Init tests and sets without synchronization.  Of two
\* calls on an unset account, a call returns nil exactly when it read project
\* as empty, so when both did, both succeed, and each word of project is one
\* a successful caller stored (the projectID of the caller that wrote last, or
\* a mix of the two when the word stores interleave); a call that read project
\* as set returns the precondition error naming what its second read of
\* project found (a successful caller's projectID, or a half-stored header,
\* on which it may fault instead); when the calls do not overlap, exactly one
\* succeeds (the first), project is its projectID and the other call gets the
\* precondition error naming it.
C9_UnsynchronizedInit ==
    AllDone
    => /\ \A g \in Callers : ReadEmpty(g) <=> gerr[g] = NoErr
       /\ \A g \in Callers : gerr[g] = NoErr => stored[g] = {"ptr", "len"}
       /\ Succeeded # {}
       /\ words.ptr \in {garg[g] : g \in Succeeded}
       /\ words.len \in {Len(garg[g]) : g \in Succeeded}
       /\ \A g \in Callers \ Succeeded :
             gerr[g] \in {"project must not be set: " \o garg[h] : h \in Succeeded}
                         \cup {"project must not be set: <torn>", Panic}
       /\ ~overlap =>
             /\ Succeeded = {gorder[1]}
             /\ a.Project = garg[gorder[1]]
             /\ \A g \in Callers \ Succeeded :
                   gerr[g] = "project must not be set: " \o garg[gorder[1]]

\* Both callers read project as empty, both returned nil, and project is the
\* projectID of the caller that returned last.
C9_Witness ==
    /\ AllDone /\ garg["g1"] = "p1" /\ garg["g2"] = "p2"
    /\ \A g \in Callers : ReadEmpty(g) /\ gerr[g] = NoErr
    /\ gorder = <<"g1", "g2">> /\ a.Project = "p2"

\* C10: ProjectIAMMembers.Init(p) returns nil in every state, a bound project
\* included, and changes only the project, which becomes p; no other method
\* changes the project, so MarshalJSON emits the project given last;
\* MarshalJSON changes nothing of the aggregate.
C10_InitRebinds ==
    /\ [](op = OpPIMInit => (err = NoErr /\ ms.project = arg))
    /\ [](MarshalReturned /\ ms.project # ""
            => (Has("project") /\ out.fields.project = JStr(ms.project)))
    /\ [][op' = OpPIMInit
            => (ms'.Members = ms.Members /\ ms'.DependsOn = ms.DependsOn /\ tail' = tail)]_vars
    /\ [][op' = OpMarshal => (ms' = ms /\ tail' = tail)]_vars
    /\ [][op' # OpPIMInit => ms'.project = ms.project]_vars

\* Init("p2") on an aggregate bound to "p1" and holding members.
C10_Witness ==
    /\ op = OpPIMInit /\ err = NoErr
    /\ replaced = "p1" /\ arg = "p2" /\ ms.project = "p2"
    /\ N = 2 /\ ms.DependsOn = <<"d1">>

====
